---- MODULE Spec2Model ----
(***************************************************************************)
(* Verification model of app.py (YouTube trend / channel analyser).        *)
(*                                                                         *)
(* The module models, from the source:                                     *)
(*   - binary64 arithmetic as CPython performs it (correctly rounded       *)
(*     +, *, / with round-half-to-even), on exact bit strings;             *)
(*   - parse_iso_duration;                                                 *)
(*   - extract_keywords_with_weight;                                       *)
(*   - assign_channel_grade, get_channel_summary_row;                      *)
(*   - the metric derivation of fetch_videos_by_keyword /                  *)
(*     fetch_channel_recent_videos;                                        *)
(*   - st.cache_data(ttl=3600) in front of the three fetch functions;      *)
(*   - the history file with save_channel_history / load_channel_history   *)
(*     and the two pages that write it;                                    *)
(*   - safe_int and the projection of a raw API item into a row;           *)
(*   - the weekday and publish_hour columns, the weekday sentence of       *)
(*     make_simple_summary_for_channel and the bar charts of               *)
(*     render_pattern_charts.                                              *)
(***************************************************************************)
EXTENDS Integers, Sequences, FiniteSets, TLC

(***************************************************************************)
(* Natural numbers as bit strings, most significant bit first, without     *)
(* leading zeros (the empty string is 0).  TLC's integers are 32 bits      *)
(* wide; a binary64 significand is 53 bits wide.                           *)
(***************************************************************************)
Zeros(n) == [i \in 1..n |-> 0]

\* b without its leading zeros
Strip(b) == IF \A i \in 1..Len(b) : b[i] = 0 THEN <<>>
            ELSE LET f == CHOOSE i \in 1..Len(b) : b[i] = 1 /\ \A j \in 1..(i - 1) : b[j] = 0
                 IN  SubSeq(b, f, Len(b))

\* b without its trailing zeros
StripRight(b) == IF \A i \in 1..Len(b) : b[i] = 0 THEN <<>>
                 ELSE LET l == CHOOSE i \in 1..Len(b) :
                                   b[i] = 1 /\ \A j \in (i + 1)..Len(b) : b[j] = 0
                      IN  SubSeq(b, 1, l)

PadTo(b, n) == Zeros(n - Len(b)) \o b

Max2(a, b) == IF a >= b THEN a ELSE b
Min2(a, b) == IF a <= b THEN a ELSE b

RECURSIVE BitsOf(_)
BitsOf(n) == IF n = 0 THEN <<>> ELSE Append(BitsOf(n \div 2), n % 2)

RECURSIVE NatOf(_)
NatOf(b) == IF b = <<>> THEN 0 ELSE 2 * NatOf(SubSeq(b, 1, Len(b) - 1)) + b[Len(b)]

(***************************************************************************)
(* The digit loops below run over a range of positions by halving it, and  *)
(* evaluate the first half (Done) before entering the second, so that the  *)
(* evaluation depth stays logarithmic in the length.                       *)
(***************************************************************************)
Done(st) == st = st

\* one column of a + b: st = [c: carry in, out: the digits to the right]
AddStep(a, b, i, st) ==
    LET s == a[i] + b[i] + st.c
    IN  [c |-> s \div 2, out |-> <<s % 2>> \o st.out]

\* the columns hi, hi-1, .., lo of a + b
RECURSIVE AddRange(_, _, _, _, _)
AddRange(a, b, lo, hi, st) ==
    IF lo > hi THEN st
    ELSE IF lo = hi THEN AddStep(a, b, lo, st)
    ELSE LET mid == (lo + hi) \div 2
             s1  == AddRange(a, b, mid + 1, hi, st)
         IN  IF Done(s1) THEN AddRange(a, b, lo, mid, s1) ELSE s1

BAdd(a, b) ==
    LET n  == Max2(Len(a), Len(b))
        st == AddRange(PadTo(a, n), PadTo(b, n), 1, n, [c |-> 0, out |-> <<>>])
    IN  Strip(<<st.c>> \o st.out)

\* one column of a - b: st = [c: borrow in, out: the digits to the right]
SubStep(a, b, i, st) ==
    LET s == a[i] - b[i] - st.c
    IN  [c |-> IF s < 0 THEN 1 ELSE 0, out |-> <<IF s < 0 THEN s + 2 ELSE s>> \o st.out]

RECURSIVE SubRange(_, _, _, _, _)
SubRange(a, b, lo, hi, st) ==
    IF lo > hi THEN st
    ELSE IF lo = hi THEN SubStep(a, b, lo, st)
    ELSE LET mid == (lo + hi) \div 2
             s1  == SubRange(a, b, mid + 1, hi, st)
         IN  IF Done(s1) THEN SubRange(a, b, lo, mid, s1) ELSE s1

\* a - b for a >= b
BSub(a, b) ==
    LET n == Max2(Len(a), Len(b))
    IN  Strip(SubRange(PadTo(a, n), PadTo(b, n), 1, n, [c |-> 0, out |-> <<>>]).out)

\* a >= b, both without leading zeros
BGeq(a, b) ==
    IF Len(a) # Len(b) THEN Len(a) > Len(b)
    ELSE IF a = b THEN TRUE
    ELSE LET f == CHOOSE i \in 1..Len(a) : a[i] # b[i] /\ \A j \in 1..(i - 1) : a[j] = b[j]
         IN  a[f] > b[f]

\* the product a * b: shift-and-add over the bits lo..hi of b
RECURSIVE MulRange(_, _, _, _, _)
MulRange(a, b, lo, hi, acc) ==
    IF lo > hi THEN acc
    ELSE IF lo = hi
         THEN LET dbl == IF acc = <<>> THEN <<>> ELSE Append(acc, 0)
              IN  IF b[lo] = 1 THEN BAdd(dbl, a) ELSE dbl
    ELSE LET mid == (lo + hi) \div 2
             s1  == MulRange(a, b, lo, mid, acc)
         IN  IF Done(s1) THEN MulRange(a, b, mid + 1, hi, s1) ELSE s1

BMul(a, b) == IF Len(a) >= Len(b) THEN MulRange(a, b, 1, Len(b), <<>>)
              ELSE MulRange(b, a, 1, Len(a), <<>>)

\* one step of the long division by d: bring down bit i of a
DivStep(a, d, i, st) ==
    LET r2 == Strip(Append(st.r, a[i]))
    IN  IF BGeq(r2, d) THEN [q |-> Append(st.q, 1), r |-> BSub(r2, d)]
        ELSE [q |-> Append(st.q, 0), r |-> r2]

RECURSIVE DivRange(_, _, _, _, _)
DivRange(a, d, lo, hi, st) ==
    IF lo > hi THEN st
    ELSE IF lo = hi THEN DivStep(a, d, lo, st)
    ELSE LET mid == (lo + hi) \div 2
             s1  == DivRange(a, d, lo, mid, st)
         IN  IF Done(s1) THEN DivRange(a, d, mid + 1, hi, s1) ELSE s1

\* <<quotient, remainder>> of a by d, d # 0
BDivMod(a, d) ==
    LET st == DivRange(a, d, 1, Len(a), [q |-> <<>>, r |-> <<>>])
    IN  <<Strip(st.q), st.r>>

(***************************************************************************)
(* binary64 values (Python float).  A finite value is s * m * 2^e with m   *)
(* an odd bit string of at most 53 bits (m = <<>> is zero) and s the sign; *)
(* the representation is canonical, so = is numeric equality.  NaN is what *)
(* pandas carries for a missing value.                                     *)
(***************************************************************************)
SigBits == 53

FZero == [k |-> "fin", neg |-> FALSE, m |-> <<>>, e |-> 0]
FNaN  == [k |-> "nan", neg |-> FALSE, m |-> <<>>, e |-> 0]
IsNaN(x) == x.k = "nan"
IsZero(x) == x.k = "fin" /\ x.m = <<>>

Canon(neg, m, e) ==
    IF m = <<>> THEN FZero
    ELSE LET t == StripRight(m)
         IN  [k |-> "fin", neg |-> neg, m |-> t, e |-> e + (Len(m) - Len(t))]

\* round the exact value b * 2^e (plus a nonzero tail when sticky) to 53 bits,
\* ties to even
RoundBits(neg, b, e, sticky) ==
    IF Len(b) <= SigBits THEN Canon(neg, b, e)
    ELSE LET n    == Len(b)
             top  == SubSeq(b, 1, SigBits)
             g    == b[SigBits + 1]
             rest == sticky \/ (\E i \in (SigBits + 2)..n : b[i] = 1)
             up   == g = 1 /\ (rest \/ top[SigBits] = 1)
         IN  IF up THEN Canon(neg, BAdd(top, <<1>>), e + (n - SigBits))
             ELSE Canon(neg, top, e + (n - SigBits))

\* float(n) for an integer n of small magnitude
FromInt(n) == IF n >= 0 THEN Canon(FALSE, BitsOf(n), 0) ELSE Canon(TRUE, BitsOf(-n), 0)

\* the magnitudes of x and y as integers over a common exponent
Aligned(x, y) ==
    LET lo == Min2(x.e, y.e)
    IN  [a |-> IF x.m = <<>> THEN <<>> ELSE x.m \o Zeros(x.e - lo),
         b |-> IF y.m = <<>> THEN <<>> ELSE y.m \o Zeros(y.e - lo),
         e |-> lo]

FAdd(x, y) ==
    IF IsNaN(x) \/ IsNaN(y) THEN FNaN
    ELSE IF IsZero(x) THEN y
    ELSE IF IsZero(y) THEN x
    ELSE LET al == Aligned(x, y)
         IN  IF x.neg = y.neg THEN RoundBits(x.neg, BAdd(al.a, al.b), al.e, FALSE)
             ELSE IF BGeq(al.a, al.b) THEN RoundBits(x.neg, BSub(al.a, al.b), al.e, FALSE)
             ELSE RoundBits(y.neg, BSub(al.b, al.a), al.e, FALSE)

FNeg(x) == IF IsNaN(x) \/ IsZero(x) THEN x ELSE [x EXCEPT !.neg = ~x.neg]

FSub(x, y) == FAdd(x, FNeg(y))

FMul(x, y) ==
    IF IsNaN(x) \/ IsNaN(y) THEN FNaN
    ELSE IF IsZero(x) \/ IsZero(y) THEN FZero
    ELSE RoundBits(x.neg # y.neg, BMul(x.m, y.m), x.e + y.e, FALSE)

\* x / y for y # 0: 56 or more quotient bits, then rounding with the remainder
\* as the sticky bit
FDiv(x, y) ==
    IF IsNaN(x) \/ IsNaN(y) THEN FNaN
    ELSE IF IsZero(x) THEN FZero
    ELSE LET sh == Max2(0, Len(y.m) + SigBits + 3 - Len(x.m))
             qr == BDivMod(x.m \o Zeros(sh), y.m)
         IN  RoundBits(x.neg # y.neg, qr[1], x.e - y.e - sh, qr[2] # <<>>)

\* x >= y; FALSE when either is NaN, as IEEE comparison is
FGeq(x, y) ==
    IF IsNaN(x) \/ IsNaN(y) THEN FALSE
    ELSE LET al == Aligned(x, y)
             xn == x.neg /\ ~IsZero(x)
             yn == y.neg /\ ~IsZero(y)
         IN  IF xn # yn THEN yn
             ELSE IF xn THEN BGeq(al.b, al.a)
             ELSE BGeq(al.a, al.b)

FLt(x, y) == ~IsNaN(x) /\ ~IsNaN(y) /\ ~FGeq(x, y)
FGt(x, y) == FLt(y, x)

\* the float a decimal literal num/den denotes (correctly rounded)
Dec(num, den) == FDiv(FromInt(num), FromInt(den))

\* int(x): truncation toward zero, for |x| < 2^31
FTrunc(x) ==
    IF IsZero(x) THEN 0
    ELSE LET mag == IF x.e >= 0 THEN NatOf(x.m \o Zeros(x.e))
                    ELSE IF -x.e >= Len(x.m) THEN 0
                    ELSE NatOf(SubSeq(x.m, 1, Len(x.m) + x.e))
         IN  IF x.neg THEN -mag ELSE mag


(***************************************************************************)
(* The state.  Each component of the program has its own variables; a      *)
(* specification below exercises one component and leaves the variables of *)
(* the others at their initial values.                                     *)
(***************************************************************************)
VARIABLES
    grade_info,     \* assign_channel_grade: the ChannelInfo argument
    grade_df,       \* assign_channel_grade: the views_per_day column of recent_df
    grade_ret,      \* <<>> before the call, <<label>> after it
    derive_rows,    \* the projected rows handed to the metric derivation
    derive_now,     \* datetime.now(timezone.utc) of that call, in seconds
    derive_df,      \* <<>> before the call, <<df>> after it
    analysis,       \* what get_channel_summary_row returns for each page input
    file,           \* channel_history.json: [exists, readable, text]
    load_ret,       \* what the last load_channel_history() call did
    ui,             \* the messages the last page run showed, in order
    last_op,        \* history: the last page run and what it met
    saved,          \* history: per channel id, the entry of its last save
                    \* since the last clear (<<>> when there is none)
    dur_token,      \* parse_iso_duration: the argument (<<>> is None, else <<string>>)
    dur_ret,        \* <<>> before the call, <<seconds>> after it
    kw_df,          \* extract_keywords_with_weight: the rows [title, views] of df
    kw_top_n,       \* its top_n argument
    kw_ret,         \* <<>> before the call, <<rows [keyword, score]>> after it
    clock,          \* the cached fetches: seconds since the process started
    cache,          \* per query signature, <<>> or <<[value, stamp]>>
    source,         \* per query signature, what the data source answers now
    call,           \* <<>> or <<the last fetch call and what it did>>
    returned,       \* per query signature, <<>> or <<[time, value]>> of the last
                    \* call that returned a result
    fetched,        \* per query signature, <<>> or <<[time, value]>> of the last
                    \* call that got its result from the data source
    proj_kind,      \* item projection: "video" or "channel" ("" when idle)
    proj_item,      \* <<>> or <<the raw API item>>
    proj_ret,       \* <<>> before the projection, <<[raised, row]>> after it
    pat_rows,       \* publish pattern views: the projected rows of the channel
    pat_ret         \* <<>> before the views are built, <<the views>> after

gradeVars    == <<grade_info, grade_df, grade_ret>>
deriveVars   == <<derive_rows, derive_now, derive_df>>
historyVars  == <<analysis, file, load_ret, ui, last_op, saved>>
durationVars == <<dur_token, dur_ret>>
keywordVars  == <<kw_df, kw_top_n, kw_ret>>
cacheVars    == <<clock, cache, source, call, returned, fetched>>
projectVars  == <<proj_kind, proj_item, proj_ret>>
patternVars  == <<pat_rows, pat_ret>>
vars ==
    <<gradeVars, deriveVars, historyVars, durationVars, keywordVars, cacheVars,
      projectVars, patternVars>>

(***************************************************************************)
(* pandas Series.mean() of a float64 column: NaN entries are skipped, the  *)
(* rest is summed left to right and divided by their number; the mean of   *)
(* no value is NaN.                                                        *)
(***************************************************************************)
RECURSIVE FSum(_)
FSum(col) == IF col = <<>> THEN FZero
             ELSE FAdd(FSum(SubSeq(col, 1, Len(col) - 1)), col[Len(col)])

Mean(col) ==
    LET valid == SelectSeq(col, LAMBDA x : ~IsNaN(x))
    IN  IF valid = <<>> THEN FNaN ELSE FDiv(FSum(valid), FromInt(Len(valid)))

(***************************************************************************)
(* assign_channel_grade(info, recent_df), app.py:176-209.  recent_df is    *)
(* given by its views_per_day column.                                      *)
(***************************************************************************)
\* Strings are sequences of one-character strings.  UNGRADED stands for the
\* four-character Korean label app.py:179 returns.
UNGRADED == <<"u", "n", "g", "r", "a", "d", "e", "d">>

DigitChar(n) == <<"0", "1", "2", "3", "4", "5", "6", "7", "8", "9">>[n + 1]

rank_sub(sub_count) ==
    IF sub_count >= 100000 THEN 3 ELSE IF sub_count >= 10000 THEN 2 ELSE 1

daily_ratio(sub_count, col) ==
    IF sub_count > 0 THEN FMul(FDiv(Mean(col), FromInt(sub_count)), FromInt(1000))
    ELSE FZero

rank_activity(ratio) ==
    IF FGeq(ratio, FromInt(10)) THEN 3 ELSE IF FGeq(ratio, FromInt(3)) THEN 2 ELSE 1

final_score(rs, ra) ==
    FAdd(FMul(FromInt(rs), Dec(4, 10)), FMul(FromInt(ra), Dec(6, 10)))

grade_char(score) ==
    IF FGeq(score, Dec(26, 10)) THEN "A" ELSE IF FGeq(score, Dec(18, 10)) THEN "B" ELSE "C"

grade_num(sub_count, ratio) ==
    IF sub_count < 10000 THEN 3
    ELSE IF sub_count < 50000 /\ FLt(ratio, FromInt(5)) THEN 2
    ELSE 1

\* a grading that only looks for the empty collection
assign_channel_grade_no_zero_test(info, col) ==
    IF col = <<>> THEN UNGRADED
    ELSE LET ratio == daily_ratio(info.subscriber_count, col)
             score == final_score(rank_sub(info.subscriber_count), rank_activity(ratio))
         IN  <<grade_char(score), DigitChar(grade_num(info.subscriber_count, ratio))>>

assign_channel_grade(info, col) ==
    IF col = <<>> \/ info.subscriber_count = 0 THEN UNGRADED
    ELSE LET ratio == daily_ratio(info.subscriber_count, col)
             score == final_score(rank_sub(info.subscriber_count), rank_activity(ratio))
         IN  <<grade_char(score), DigitChar(grade_num(info.subscriber_count, ratio))>>

(***************************************************************************)
(* The metric derivation, app.py:272-282 and app.py:342-352.  Instants are *)
(* whole seconds; NaT is the invalid instant pandas carries for a publish  *)
(* timestamp that could not be parsed.  A row is [title, views,            *)
(* published_at, duration_sec].                                            *)
(***************************************************************************)
NaT == -1
SecondsPerDay == 3600 * 24

\* (now - published_at).total_seconds() / (3600 * 24)
AgeDays(now, published_at) ==
    IF published_at = NaT THEN FNaN
    ELSE FDiv(FromInt(now - published_at), FromInt(SecondsPerDay))

\* Series.replace(0, 0.1): only a value equal to 0 is replaced
Replace0(x) == IF IsZero(x) THEN Dec(1, 10) ELSE x

days_since_publish(now, published_at) == Replace0(AgeDays(now, published_at))

DerivedRow(row, now) ==
    LET days == days_since_publish(now, row.published_at)
    IN  [title              |-> row.title,
         views              |-> row.views,
         published_at       |-> row.published_at,
         duration_sec       |-> row.duration_sec,
         days_since_publish |-> days,
         views_per_day      |-> FDiv(FromInt(row.views), days)]

\* sort_values(key, ascending=False): descending, NaT last; equal keys keep
\* their order (numpy sorts the short arrays of this program by insertion)
Before(key, x, y) ==
    IF key = "views" THEN x.views > y.views
    ELSE x.published_at # NaT /\ (y.published_at = NaT \/ x.published_at > y.published_at)

RECURSIVE InsertSorted(_, _, _)
InsertSorted(key, sorted, x) ==
    IF sorted = <<>> THEN <<x>>
    ELSE IF Before(key, x, Head(sorted)) THEN <<x>> \o sorted
    ELSE <<Head(sorted)>> \o InsertSorted(key, Tail(sorted), x)

RECURSIVE SortValues(_, _)
SortValues(key, rows) ==
    IF rows = <<>> THEN <<>>
    ELSE InsertSorted(key, SortValues(key, SubSeq(rows, 1, Len(rows) - 1)), rows[Len(rows)])

\* the tail of fetch_videos_by_keyword (key "views") and of
\* fetch_channel_recent_videos (key "published_at")
Derive(rows, now, key) ==
    SortValues(key, [i \in 1..Len(rows) |-> DerivedRow(rows[i], now)])

(***************************************************************************)
(* get_channel_summary_row(info, df), app.py:212-233.  The result is       *)
(* [kind, row]: kind "empty" is the {} of line 215, "raise" the ValueError *)
(* int() raises for a NaN mean, "row" the dictionary of lines 220-232.     *)
(***************************************************************************)
ThirtyDays == 30 * SecondsPerDay

Column(df, f) == [i \in 1..Len(df) |-> df[i][f]]
IntColumn(df, f) == [i \in 1..Len(df) |-> FromInt(df[i][f])]

\* now.strftime('%Y-%m-%d %H:%M'): the minute the instant falls in
analysis_date(now) == now \div 60

NoRow == [channel_id |-> "", title |-> "", subscriber_count |-> 0, total_views |-> 0,
          video_count |-> 0, analysis_date |-> 0, recent_video_count |-> 0,
          recent_avg_views |-> 0, recent_avg_daily_views |-> 0,
          videos_last_30d |-> 0, grade |-> <<>>]

get_channel_summary_row(info, df, now) ==
    IF df = <<>> THEN [kind |-> "empty", row |-> NoRow]
    ELSE LET recent_30d == SelectSeq(df, LAMBDA v :
                               v.published_at # NaT /\ v.published_at > now - ThirtyDays)
             avg_daily  == Mean(Column(df, "views_per_day"))
         IN  IF IsNaN(avg_daily) THEN [kind |-> "raise", row |-> NoRow]
             ELSE [kind |-> "row",
                   row  |-> [channel_id             |-> info.channel_id,
                             title                  |-> info.title,
                             subscriber_count       |-> info.subscriber_count,
                             total_views            |-> info.view_count,
                             video_count            |-> info.video_count,
                             analysis_date          |-> analysis_date(now),
                             recent_video_count     |-> Len(df),
                             recent_avg_views       |-> FTrunc(Mean(IntColumn(df, "views"))),
                             recent_avg_daily_views |-> FTrunc(avg_daily),
                             videos_last_30d        |-> Len(recent_30d),
                             grade |-> assign_channel_grade(info, Column(df, "views_per_day"))]]

(***************************************************************************)
(* Python dictionaries: sequences of [k, v] with distinct keys, in         *)
(* insertion order.                                                        *)
(***************************************************************************)
EmptyDict == <<>>
DictKeys(d) == {d[i].k : i \in 1..Len(d)}
DictHas(d, k) == k \in DictKeys(d)
DictGet(d, k) == d[CHOOSE i \in 1..Len(d) : d[i].k = k].v

\* a dictionary that keeps the first value stored under a key (dict.setdefault)
DictSetDefault(d, k, v) ==
    IF DictHas(d, k) THEN d ELSE Append(d, [k |-> k, v |-> v])

\* a dictionary that holds nothing but the key stored last
DictSetOnly(d, k, v) == <<[k |-> k, v |-> v]>>

\* d[k] = v: an existing key keeps its place and gets the new value whole
DictSet(d, k, v) ==
    IF DictHas(d, k) THEN [i \in 1..Len(d) |-> IF d[i].k = k THEN [k |-> k, v |-> v] ELSE d[i]]
    ELSE Append(d, [k |-> k, v |-> v])

(***************************************************************************)
(* The history file.  Its text is the sequence of members json.dump has    *)
(* written and whether the closing brace was written: a text that is not   *)
(* closed (the empty file, a dump cut short, garbage) is no JSON document. *)
(***************************************************************************)
NoText == [items |-> <<>>, closed |-> FALSE]
AbsentFile == [exists |-> FALSE, readable |-> TRUE, text |-> NoText]

\* json.dump(history_data, f, ...): the whole document
json_dump(d) == [items |-> d, closed |-> TRUE]

\* json.load(f): [exc, value]; members are read in order into a dictionary
RECURSIVE ReadMembers(_, _)
ReadMembers(items, d) ==
    IF items = <<>> THEN d
    ELSE ReadMembers(Tail(items), DictSet(d, Head(items).k, Head(items).v))

json_load(text) ==
    IF ~text.closed THEN [exc |-> TRUE, value |-> EmptyDict]
    ELSE [exc |-> FALSE, value |-> ReadMembers(text.items, EmptyDict)]

\* the body of the try block of load_channel_history, app.py:170-171
ReadHistoryFile(f) ==
    IF ~f.readable THEN [exc |-> TRUE, value |-> EmptyDict]     \* open() raises
    ELSE json_load(f.text)

\* a load that does not catch what reading the file raises
load_channel_history_uncaught(f) ==
    IF ~f.exists THEN [raised |-> FALSE, value |-> EmptyDict]
    ELSE LET r == ReadHistoryFile(f)
         IN  [raised |-> r.exc, value |-> r.value]

\* load_channel_history(), app.py:165-173: [raised, value]
load_channel_history(f) ==
    IF ~f.exists THEN [raised |-> FALSE, value |-> EmptyDict]
    ELSE LET r == ReadHistoryFile(f)
         IN  IF r.exc THEN [raised |-> FALSE, value |-> EmptyDict]     \* except Exception
             ELSE [raised |-> FALSE, value |-> r.value]

(***************************************************************************)
(* save_channel_history(history_data), app.py:156-162, under a fault the   *)
(* file system may raise: "none", "open" (open() fails, the file is left   *)
(* as it was) or "dump" (open() has truncated the file, the dump stops     *)
(* after cut members).  The result is the file and whether st.error ran.   *)
(***************************************************************************)
\* a save that skips the write when there is nothing to write
save_channel_history_nonempty(f, history_data, fault, cut) ==
    IF history_data = EmptyDict \/ fault = "open" THEN [file |-> f, error |-> fault # "none"]
    ELSE IF fault = "dump"
    THEN [file  |-> [exists |-> TRUE, readable |-> f.readable,
                     text |-> [items |-> SubSeq(history_data, 1, cut), closed |-> FALSE]],
          error |-> TRUE]
    ELSE [file  |-> [exists |-> TRUE, readable |-> f.readable, text |-> json_dump(history_data)],
          error |-> FALSE]

save_channel_history(f, history_data, fault, cut) ==
    IF fault = "open" THEN [file |-> f, error |-> TRUE]
    ELSE IF fault = "dump"
    THEN [file  |-> [exists |-> TRUE, readable |-> f.readable,
                     text |-> [items |-> SubSeq(history_data, 1, cut), closed |-> FALSE]],
          error |-> TRUE]
    ELSE [file  |-> [exists |-> TRUE, readable |-> f.readable, text |-> json_dump(history_data)],
          error |-> FALSE]

(***************************************************************************)
(* What the pages are run with: the channel the user entered, and what the *)
(* data source answered for it (ChannelInfo and the recent videos).        *)
(***************************************************************************)
ChannelIds == {"UCa", "UCb"}
HistNow == 100 * SecondsPerDay
NowChoices == {HistNow, HistNow + 60}
SubscriberChoices == {20000, 200000}

InfoOf(cid, subs) ==
    [channel_id |-> cid, title |-> cid, subscriber_count |-> subs,
     view_count |-> 50 * subs, video_count |-> 12]

RowA == [title |-> <<"a", "b">>, views |-> 1000, duration_sec |-> 300,
         published_at |-> HistNow - 2 * SecondsPerDay]
RowB == [title |-> <<"c", "d">>, views |-> 90000, duration_sec |-> 1500,
         published_at |-> HistNow - 40 * SecondsPerDay]
RowN == [title |-> <<"e", "f">>, views |-> 500, duration_sec |-> 0, published_at |-> NaT]

RecentChoices == {<<>>, <<RowA>>, <<RowB, RowN, RowA>>}

SummaryInputs == ChannelIds \X SubscriberChoices \X RecentChoices \X NowChoices

\* get_channel_summary_row over the inputs above, on the df that
\* fetch_channel_recent_videos derives.  The variable analysis holds this
\* table from the initial state on, so that it is computed once.
SummaryOf == [x \in SummaryInputs |->
                 get_channel_summary_row(InfoOf(x[1], x[2]),
                                         Derive(x[3], x[4], "published_at"), x[4])]

(***************************************************************************)
(* page_single_channel, app.py:620-635: the load of line 620 and, when the *)
(* save button was pressed, lines 628-635.                                 *)
(***************************************************************************)
FileState(f) ==
    IF ~f.exists THEN "absent"
    ELSE IF ~f.readable THEN "unreadable"
    ELSE IF f.text = NoText THEN "empty"
    ELSE IF ~f.text.closed THEN "corrupt"
    ELSE "valid"

\* last_op: the page run (op, channel), whether the channel had an entry and
\* whether it was equal to the one saved, whether the store is cleared (cleared
\* by the clear-all button and not saved to since), whether this save is the
\* first since a clear, and the state of the file that load_ret was read from
Op(op, cid, existed, same, cleared, after_clear, loaded_from) ==
    [op |-> op, channel |-> cid, existed |-> existed, same |-> same, cleared |-> cleared,
     after_clear |-> after_clear, loaded_from |-> loaded_from]

page_single_channel(cid, subs, raw, now, save_button, fault, cut) ==
    LET ld           == load_channel_history(file)
        history_data == ld.value
        summary_data == analysis[<<cid, subs, raw, now>>]
        upserted     == DictSet(history_data, cid, summary_data.row)
        res          == save_channel_history(file, upserted, fault, Min2(cut, Len(upserted)))
        existed      == DictHas(history_data, cid)
        same         == existed /\ DictGet(history_data, cid) = summary_data.row
    IN  /\ load_ret' = ld
        /\ UNCHANGED analysis
        /\ IF ~save_button
           THEN /\ ui' = <<>>
                /\ last_op' = Op("view", cid, existed, FALSE, last_op.cleared, FALSE, FileState(file))
                /\ UNCHANGED <<file, saved>>
           ELSE IF summary_data.kind = "raise"
           THEN /\ ui' = <<"exception">>
                /\ last_op' = Op("save_raise", cid, existed, FALSE, last_op.cleared, FALSE,
                                 FileState(file))
                /\ UNCHANGED <<file, saved>>
           ELSE IF summary_data.kind = "empty"
           THEN /\ ui' = <<"warning">>
                /\ last_op' = Op("save_empty", cid, existed, FALSE, last_op.cleared, FALSE,
                                 FileState(file))
                /\ UNCHANGED <<file, saved>>
           ELSE /\ file' = res.file
                /\ ui' = (IF res.error THEN <<"error">> ELSE <<>>) \o <<"success">>
                /\ saved' = [saved EXCEPT ![cid] = <<summary_data.row>>]
                /\ last_op' = Op("save", cid, existed, same, FALSE, last_op.cleared,
                                 FileState(file))

(***************************************************************************)
(* page_channel_history, app.py:668-715: the load of line 673, the early   *)
(* return of lines 675-677, and the clear-all button of lines 712-715 with *)
(* the rerun it asks for (which loads again).                              *)
(***************************************************************************)
page_channel_history(clear_button, fault) ==
    LET ld  == load_channel_history(file)
        res == save_channel_history(file, EmptyDict, fault, 0)
        re  == load_channel_history(res.file)
    IN  /\ UNCHANGED analysis
        /\ IF ld.value = EmptyDict
           THEN /\ load_ret' = ld
                /\ ui' = <<"info">>
                /\ last_op' = Op("list", "", FALSE, FALSE, last_op.cleared, FALSE, FileState(file))
                /\ UNCHANGED <<file, saved>>
           ELSE IF ~clear_button
           THEN /\ load_ret' = ld
                /\ ui' = <<>>
                /\ last_op' = Op("list", "", FALSE, FALSE, last_op.cleared, FALSE, FileState(file))
                /\ UNCHANGED <<file, saved>>
           ELSE /\ file' = res.file
                /\ load_ret' = re
                /\ ui' = (IF res.error THEN <<"error">> ELSE <<>>) \o <<"success_clear">>
                             \o (IF re.value = EmptyDict THEN <<"info">> ELSE <<>>)
                /\ saved' = [c \in ChannelIds |-> <<>>]
                /\ last_op' = Op("clear", "", FALSE, FALSE, TRUE, FALSE, FileState(res.file))

(***************************************************************************)
(* Strings are sequences of one-character strings.                         *)
(***************************************************************************)
Digits == <<"0", "1", "2", "3", "4", "5", "6", "7", "8", "9">>
UpperCase == <<"A", "B", "C", "D", "E", "F", "G", "H", "I", "J", "K", "L", "M",
               "N", "O", "P", "Q", "R", "S", "T", "U", "V", "W", "X", "Y", "Z">>
LowerCase == <<"a", "b", "c", "d", "e", "f", "g", "h", "i", "j", "k", "l", "m",
               "n", "o", "p", "q", "r", "s", "t", "u", "v", "w", "x", "y", "z">>

Range(seq) == {seq[i] : i \in 1..Len(seq)}
IsDigit(c) == c \in Range(Digits)
DigitValue(c) == (CHOOSE i \in 1..Len(Digits) : Digits[i] = c) - 1

\* int(text) of a string of decimal digits
RECURSIVE IntOfDigits(_)
IntOfDigits(text) ==
    IF text = <<>> THEN 0
    ELSE 10 * IntOfDigits(SubSeq(text, 1, Len(text) - 1)) + DigitValue(text[Len(text)])

\* str(n) of a natural number
RECURSIVE StrOfNat(_)
StrOfNat(n) == IF n < 10 THEN <<Digits[n + 1]>> ELSE StrOfNat(n \div 10) \o <<Digits[(n % 10) + 1]>>

(***************************************************************************)
(* parse_iso_duration(duration), app.py:56-68.  The argument is <<>> for   *)
(* None and <<string>> for a string.                                       *)
(***************************************************************************)
\* the first position from p on that holds no digit (\d+ is greedy)
RECURSIVE DigitsEnd(_, _)
DigitsEnd(s, p) == IF p <= Len(s) /\ IsDigit(s[p]) THEN DigitsEnd(s, p + 1) ELSE p

\* (?:(\d+)U)? at position p: the group's text and where the match goes on;
\* when the digits are not followed by the unit the group takes part in
\* nothing and the match goes on at p
OptionalPart(s, p, unit) ==
    LET q == DigitsEnd(s, p)
    IN  IF q > p /\ q <= Len(s) /\ s[q] = unit
        THEN [found |-> TRUE, text |-> SubSeq(s, p, q - 1), next |-> q + 1]
        ELSE [found |-> FALSE, text |-> <<>>, next |-> p]

\* pattern.match(duration): anchored at the start of the string, not at its end
pattern_match(s) ==
    IF Len(s) >= 2 /\ s[1] = "P" /\ s[2] = "T"
    THEN LET h  == OptionalPart(s, 3, "H")
             m  == OptionalPart(s, h.next, "M")
             sc == OptionalPart(s, m.next, "S")
         IN  [matched |-> TRUE, hours |-> h, mins |-> m, secs |-> sc, end |-> sc.next]
    ELSE [matched |-> FALSE, hours |-> OptionalPart(<<>>, 1, "H"),
          mins |-> OptionalPart(<<>>, 1, "M"), secs |-> OptionalPart(<<>>, 1, "S"), end |-> 1]

parse_iso_duration(duration) ==
    IF duration = <<>> \/ duration[1] = <<>> THEN 0
    ELSE LET match == pattern_match(duration[1])
         IN  IF ~match.matched THEN 0
             ELSE LET hours == IF match.hours.found THEN IntOfDigits(match.hours.text) ELSE 0
                      mins  == IF match.mins.found THEN IntOfDigits(match.mins.text) ELSE 0
                      secs  == IF match.secs.found THEN IntOfDigits(match.secs.text) ELSE 0
                  IN  hours * 3600 + mins * 60 + secs

(***************************************************************************)
(* extract_keywords_with_weight(df, top_n), app.py:106-148.  df is given   *)
(* by its rows [title, views].                                             *)
(***************************************************************************)
\* the members of the stopword set of app.py:114-121 that are written in
\* ASCII (the titles of this model are ASCII, so that no Hangul member of the
\* set can be met)
stopwords ==
    {<<"o", "f", "f", "i", "c", "i", "a", "l">>, <<"v", "i", "d", "e", "o">>,
     <<"t", "h", "e">>, <<"a", "n", "d">>, <<"f", "o", "r">>, <<"w", "i", "t", "h">>,
     <<"f", "u", "l", "l">>, <<"v", "e", "r">>, <<"e", "p", "i", "s", "o", "d", "e">>,
     <<"e", "p">>, <<"l", "i", "v", "e">>, <<"t", "v">>, <<"s", "h", "o", "w">>,
     <<"c", "h", "a", "n", "n", "e", "l">>, <<"s", "h", "o", "r", "t", "s">>,
     <<"t", "o", "d", "a", "y">>, <<"d", "a", "y">>, <<"i", "n">>, <<"o", "f">>, <<"a">>,
     <<"s", "t", "o", "r", "y">>, <<"l", "o", "g">>, <<"v", "l", "o", "g">>,
     <<"a", "s", "m", "r">>, <<"t", "i", "p">>}

\* a title that keeps its capitals
LowerKeep(c) == c

\* str.lower(), on ASCII
Lower(c) ==
    IF c \in Range(UpperCase) THEN LowerCase[CHOOSE i \in 1..Len(UpperCase) : UpperCase[i] = c]
    ELSE c

StrLower(s) == [i \in 1..Len(s) |-> Lower(s[i])]

\* the character class [가-힣a-zA-Z0-9], on ASCII
InTokenClass(c) == c \in Range(LowerCase) \cup Range(UpperCase) \cup Range(Digits)

\* re.findall(r"[가-힣a-zA-Z0-9]+", title): the maximal runs of class characters
RECURSIVE FindallFrom(_, _, _)
FindallFrom(s, p, cur) ==
    IF p > Len(s) THEN (IF cur = <<>> THEN <<>> ELSE <<cur>>)
    ELSE IF InTokenClass(s[p]) THEN FindallFrom(s, p + 1, Append(cur, s[p]))
    ELSE (IF cur = <<>> THEN <<>> ELSE <<cur>>) \o FindallFrom(s, p + 1, <<>>)

re_findall(title) == FindallFrom(title, 1, <<>>)

\* views ** 0.5, for the views of this model, which are squares of whole
\* numbers (the power is then exact)
weight_linear(views) == FromInt(views)

weight_of(views) == FromInt(CHOOSE r \in 0..views : r * r = views)

\* the loop over the tokens of one title, app.py:135-137
RECURSIVE AddTokens(_, _, _)
AddTokens(keyword_scores, tokens, weight) ==
    IF tokens = <<>> THEN keyword_scores
    ELSE LET t == Head(tokens)
             counted ==
                 IF Len(t) >= 2 /\ t \notin stopwords
                 THEN DictSet(keyword_scores, t,
                              FAdd(IF DictHas(keyword_scores, t) THEN DictGet(keyword_scores, t)
                                   ELSE FZero, weight))
                 ELSE keyword_scores
         IN  AddTokens(counted, Tail(tokens), weight)

\* the loop over the rows, app.py:125-137
RECURSIVE ScoreRows(_, _)
ScoreRows(keyword_scores, rows) ==
    IF rows = <<>> THEN keyword_scores
    ELSE ScoreRows(AddTokens(keyword_scores, re_findall(StrLower(Head(rows).title)),
                             weight_of(Head(rows).views)),
                   Tail(rows))

\* Counter.most_common(n): sorted by count, largest first, entries of equal
\* count in the order in which they entered the counter; the first n of them
OutranksOrTies(x, y) == FGeq(x.v, y.v)

Outranks(x, y) == FGt(x.v, y.v)

RECURSIVE InsertRanked(_, _)
InsertRanked(ranked, x) ==
    IF ranked = <<>> THEN <<x>>
    ELSE IF Outranks(x, Head(ranked)) THEN <<x>> \o ranked
    ELSE <<Head(ranked)>> \o InsertRanked(Tail(ranked), x)

RECURSIVE Ranked(_)
Ranked(items) ==
    IF items = <<>> THEN <<>>
    ELSE InsertRanked(Ranked(SubSeq(items, 1, Len(items) - 1)), items[Len(items)])

most_common(keyword_scores, n) == SubSeq(Ranked(keyword_scores), 1, Min2(n, Len(keyword_scores)))

\* Series.round(0).astype(int) of one score: to the nearest whole number, a
\* half to the even one
RoundToInt(x) ==
    IF IsZero(x) THEN 0
    ELSE IF x.e >= 0 THEN (IF x.neg THEN -1 ELSE 1) * NatOf(x.m \o Zeros(x.e))
    ELSE LET k     == -x.e
             whole == IF k >= Len(x.m) THEN 0 ELSE NatOf(SubSeq(x.m, 1, Len(x.m) - k))
             half  == k <= Len(x.m) /\ x.m[Len(x.m) - k + 1] = 1
             up    == half /\ (k >= 2 \/ whole % 2 = 1)
             mag   == whole + (IF up THEN 1 ELSE 0)
         IN  IF x.neg THEN -mag ELSE mag

extract_keywords_with_weight(df, top_n) ==
    IF df = <<>> THEN <<>>
    ELSE LET keyword_scores == ScoreRows(EmptyDict, df)
         IN  IF keyword_scores = EmptyDict THEN <<>>
             ELSE LET data == most_common(keyword_scores, top_n)
                  IN  [i \in 1..Len(data) |->
                          [keyword |-> data[i].k, score |-> RoundToInt(data[i].v)]]

(***************************************************************************)
(* What the file system may do to the history file behind the program's    *)
(* back: delete it, empty it, damage its text, change its permissions.     *)
(***************************************************************************)
EnvFile(kind) ==
    /\ file.exists
    /\ file' = CASE kind = "delete"   -> AbsentFile
                 [] kind = "truncate" -> [file EXCEPT !.text = NoText]
                 [] kind = "garble"   -> [file EXCEPT !.text.closed = FALSE]
                 [] kind = "chmod"    -> [file EXCEPT !.readable = ~file.readable]
    /\ UNCHANGED <<analysis, load_ret, ui, last_op, saved>>

(***************************************************************************)
(* Initial values, and the specifications: each exercises one component.   *)
(***************************************************************************)
GradeIdle  == grade_info = [subscriber_count |-> 0] /\ grade_df = <<>> /\ grade_ret = <<>>
DeriveIdle == derive_rows = <<>> /\ derive_now = 0 /\ derive_df = <<>>
HistoryIdle ==
    /\ analysis = <<>>
    /\ file = AbsentFile
    /\ load_ret = [raised |-> FALSE, value |-> EmptyDict]
    /\ ui = <<>>
    /\ last_op = Op("none", "", FALSE, FALSE, FALSE, FALSE, "absent")
    /\ saved = [c \in ChannelIds |-> <<>>]

HistoryInit ==
    /\ analysis = SummaryOf
    /\ file = AbsentFile
    /\ load_ret = [raised |-> FALSE, value |-> EmptyDict]
    /\ ui = <<>>
    /\ last_op = Op("none", "", FALSE, FALSE, FALSE, FALSE, "absent")
    /\ saved = [c \in ChannelIds |-> <<>>]

DurationIdle == dur_token = <<>> /\ dur_ret = <<>>
KeywordIdle  == kw_df = <<>> /\ kw_top_n = 0 /\ kw_ret = <<>>
CacheIdle ==
    clock = 0 /\ cache = <<>> /\ source = <<>> /\ call = <<>> /\ returned = <<>> /\ fetched = <<>>
ProjectIdle  == proj_kind = "" /\ proj_item = <<>> /\ proj_ret = <<>>
PatternIdle  == pat_rows = <<>> /\ pat_ret = [summary |-> <<>>, charts |-> <<>>]

notHistory  == <<gradeVars, deriveVars, durationVars, keywordVars, cacheVars, projectVars, patternVars>>
notGrade    == <<deriveVars, historyVars, durationVars, keywordVars, cacheVars, projectVars, patternVars>>
notDerive   == <<gradeVars, historyVars, durationVars, keywordVars, cacheVars, projectVars, patternVars>>
notDuration == <<gradeVars, deriveVars, historyVars, keywordVars, cacheVars, projectVars, patternVars>>
notKeyword  == <<gradeVars, deriveVars, historyVars, durationVars, cacheVars, projectVars, patternVars>>
notCache    == <<gradeVars, deriveVars, historyVars, durationVars, keywordVars, projectVars, patternVars>>
notProject  ==
    <<gradeVars, deriveVars, historyVars, durationVars, keywordVars, cacheVars, patternVars>>
notPattern  ==
    <<gradeVars, deriveVars, historyVars, durationVars, keywordVars, cacheVars, projectVars>>

\* --- Spec: the history store on a file system that does not fail ---
SaveChannel ==
    /\ \E cid \in ChannelIds, subs \in SubscriberChoices, raw \in RecentChoices,
          now \in NowChoices :
           page_single_channel(cid, subs, raw, now, TRUE, "none", 0)
    /\ UNCHANGED notHistory

ViewChannel ==
    /\ \E cid \in ChannelIds, subs \in SubscriberChoices, raw \in RecentChoices,
          now \in NowChoices :
           page_single_channel(cid, subs, raw, now, FALSE, "none", 0)
    /\ UNCHANGED notHistory

ListHistory == page_channel_history(FALSE, "none") /\ UNCHANGED notHistory

ClearHistory == page_channel_history(TRUE, "none") /\ UNCHANGED notHistory

Init == HistoryInit /\ GradeIdle /\ DeriveIdle /\ DurationIdle /\ KeywordIdle /\ CacheIdle
    /\ ProjectIdle /\ PatternIdle

Next == SaveChannel \/ ViewChannel \/ ListHistory \/ ClearHistory

Spec == Init /\ [][Next]_vars

\* --- SpecHistoryFaults: the same pages on a file system that may fail ---
\* (one analysis per channel is enough here: what varies is the file)
WriteFaults == {"none", "open", "dump"}
FaultSubscribers == {20000}
FaultRecent == {<<>>, <<RowA>>}

SaveChannelFault ==
    /\ \E cid \in ChannelIds, subs \in FaultSubscribers, raw \in FaultRecent,
          fault \in WriteFaults, cut \in 0..Cardinality(ChannelIds) :
           page_single_channel(cid, subs, raw, HistNow, TRUE, fault, cut)
    /\ UNCHANGED notHistory

ViewChannelFault ==
    /\ \E cid \in ChannelIds, subs \in FaultSubscribers, raw \in FaultRecent :
           page_single_channel(cid, subs, raw, HistNow, FALSE, "none", 0)
    /\ UNCHANGED notHistory

ClearHistoryFault ==
    /\ \E fault \in WriteFaults : page_channel_history(TRUE, fault)
    /\ UNCHANGED notHistory

FileDamaged ==
    /\ \E kind \in {"delete", "truncate", "garble", "chmod"} : EnvFile(kind)
    /\ UNCHANGED notHistory

NextHistoryFaults ==
    \/ SaveChannelFault \/ ViewChannelFault \/ ListHistory \/ ClearHistoryFault
    \/ FileDamaged

SpecHistoryFaults == Init /\ [][NextHistoryFaults]_vars

(***************************************************************************)
(* The history store: properties.                                          *)
(***************************************************************************)
\* list_all(): what a load of the file returns
StoreOf(f) == load_channel_history(f).value

\* C1: after any saves and clears the persisted document holds at most one
\* entry per channel id, and the entry of a channel id is exactly the entry of
\* its most recent save since the last clear (none when there was none) ...
C1_LastWriteWins ==
    LET items == file.text.items
    IN  /\ \A i, j \in 1..Len(items) : items[i].k = items[j].k => i = j
        /\ DictKeys(items) \subseteq ChannelIds
        /\ \A c \in ChannelIds :
               IF saved[c] = <<>> THEN ~DictHas(StoreOf(file), c)
               ELSE /\ DictHas(StoreOf(file), c)
                    /\ DictGet(StoreOf(file), c) = saved[c][1]
                    /\ \A i \in 1..Len(items) : items[i].k = c => items[i].v = saved[c][1]

\* ... and a save of the entry the store already holds for that id leaves the
\* file as it was.
C1_Idempotent == (last_op'.op = "save" /\ last_op'.same) => file' = file

\* C1: both parts
C1_Upsert == [](C1_LastWriteWins) /\ [][C1_Idempotent]_vars

\* C1 witness: a save has just replaced a different entry of the same channel
\* while the other channel has its entry too
C1_Witness ==
    /\ last_op.op = "save" /\ last_op.existed /\ ~last_op.same
    /\ Len(file.text.items) = 2

\* C2: right after a clear-all the listing is empty (the clear ran on a store
\* that held entries), and the first save after a clear leaves exactly the file
\* that the same save leaves on a store that never existed.
C2_ClearThenSave ==
    /\ last_op.op = "clear" => load_ret.value = EmptyDict /\ StoreOf(file) = EmptyDict
    /\ last_op.cleared => StoreOf(file) = EmptyDict
    /\ (last_op.op = "save" /\ last_op.after_clear) =>
           LET c   == last_op.channel
               row == saved[c][1]
           IN  /\ StoreOf(file) = <<[k |-> c, v |-> row]>>
               /\ file = save_channel_history(AbsentFile, DictSet(EmptyDict, c, row),
                                              "none", 0).file

\* C2 witness: the first save after a clear-all
C2_Witness == last_op.op = "save" /\ last_op.after_clear

\* the entry persisted under channel id c: <<>> when there is none
EntryOf(f, c) == IF DictHas(StoreOf(f), c) THEN <<DictGet(StoreOf(f), c)>> ELSE <<>>

\* C14: a save for channel X changes only the entry under X: the persisted
\* entry of every other channel is the same before and after the save,
\* whatever saves, clears and loads came before; a save attempted with an
\* empty recent-video collection leaves the whole store as it was.
C14_SaveStep ==
    /\ last_op'.op \in {"save", "save_empty", "save_raise"} =>
           \A y \in ChannelIds \ {last_op'.channel} : EntryOf(file', y) = EntryOf(file, y)
    /\ last_op'.op = "save" => EntryOf(file', last_op'.channel) = saved'[last_op'.channel]
    /\ last_op'.op \in {"save_empty", "save_raise"} => file' = file

C14_SaveChangesOnlyItsEntry == [][C14_SaveStep]_vars

\* C14 witness: a save has just given channel UCa a new entry while UCb, saved
\* before, still has its own
C14_Witness ==
    /\ last_op.op = "save" /\ last_op.channel = "UCa" /\ ~last_op.same
    /\ EntryOf(file, "UCa") = saved["UCa"]
    /\ EntryOf(file, "UCb") # <<>> /\ EntryOf(file, "UCb") = saved["UCb"]

\* C15: when the write of the history document fails during a save or a
\* clear-all, at the open or part-way through the dump, the persisted store
\* is left as it was: a load after the failed write returns exactly the
\* entries that a load before it returned.
C15_FailedWriteStep ==
    ((SaveChannelFault \/ ClearHistoryFault)
        /\ last_op'.op \in {"save", "clear"} /\ "error" \in Range(ui'))
    => StoreOf(file') = StoreOf(file)

C15_FailedWriteKeepsStore == [][C15_FailedWriteStep]_vars

\* C16: the save action shows its success confirmation only if the entry was
\* actually persisted, and clear-all confirms the deletion only if the empty
\* store was written.
C16_ConfirmStep ==
    /\ (SaveChannelFault /\ "success" \in Range(ui')) =>
           /\ last_op'.op = "save"
           /\ EntryOf(file', last_op'.channel) = saved'[last_op'.channel]
    /\ (ClearHistoryFault /\ "success_clear" \in Range(ui')) =>
           /\ last_op'.op = "clear"
           /\ file'.exists /\ file'.text = json_dump(EmptyDict)

C16_ConfirmedOnlyIfWritten == [][C16_ConfirmStep]_vars

\* C3: load_channel_history never raises, and from an absent, empty, corrupt or
\* unreadable file it returns the empty dictionary; a page that only loads
\* shows no error for it.
BadFileStates == {"absent", "empty", "corrupt", "unreadable"}

MaxGradeRows == 2
GradeSubscribers == {0, 5000, 20000, 200000}
VpdChoices == {5, 20, 100, 200, 800, 3000}

GradeColumns ==
    UNION {[1..n -> {FromInt(v) : v \in VpdChoices}] : n \in 0..MaxGradeRows}

\* columns with the NaN a row without a valid publish instant carries
NaNColumns == {<<FNaN>>, <<FNaN, FNaN>>, <<FNaN, FromInt(200)>>, <<FromInt(3000), FNaN>>}

GradeInit ==
    /\ grade_info \in {[subscriber_count |-> s] : s \in GradeSubscribers}
    /\ grade_df \in GradeColumns \cup NaNColumns
    /\ grade_ret = <<>>

GradeCall ==
    /\ grade_ret = <<>>
    /\ grade_ret' = <<assign_channel_grade(grade_info, grade_df)>>
    /\ UNCHANGED <<grade_info, grade_df>>
    /\ UNCHANGED notGrade

InitGrade ==
    GradeInit /\ DeriveIdle /\ HistoryIdle /\ DurationIdle /\ KeywordIdle /\ CacheIdle
    /\ ProjectIdle /\ PatternIdle

SpecGrade == InitGrade /\ [][GradeCall]_vars

RECURSIVE IntSum(_)
IntSum(col) == IF col = <<>> THEN 0 ELSE FTrunc(Head(col)) + IntSum(Tail(col))

\* size and activity as the specification defines them, in exact arithmetic
\* (the columns above hold whole numbers)
SizeRank(subs) == IF subs >= 100000 THEN 3 ELSE IF subs >= 10000 THEN 2 ELSE 1

ActivityRank(subs, col) ==
    IF IntSum(col) * 1000 >= 10 * subs * Len(col) THEN 3
    ELSE IF IntSum(col) * 1000 >= 3 * subs * Len(col) THEN 2
    ELSE 1

LetterOf(size, activity) ==
    IF 4 * size + 6 * activity >= 26 THEN "A"
    ELSE IF 4 * size + 6 * activity >= 18 THEN "B"
    ELSE "C"

\* C10: for subscribers > 0 and a non-empty recent-video collection the letter
\* of the grade is A when size*0.4 + activity*0.6 >= 2.6, B when it is >= 1.8,
\* otherwise C, for all nine (size, activity) combinations.
C10_LetterBySizeAndActivity ==
    (grade_ret # <<>> /\ grade_info.subscriber_count > 0 /\ grade_df # <<>>
        /\ \A i \in 1..Len(grade_df) : ~IsNaN(grade_df[i])) =>
        grade_ret[1][1] = LetterOf(SizeRank(grade_info.subscriber_count),
                                   ActivityRank(grade_info.subscriber_count, grade_df))

\* C11: assign_channel_grade returns the ungraded result exactly when the
\* subscriber count is zero or the recent-video collection is empty; every
\* other result is a letter of {A, B, C} followed by a digit of {1, 2, 3}.
C11_UngradedOrLabel ==
    grade_ret # <<>> =>
        IF grade_info.subscriber_count = 0 \/ grade_df = <<>>
        THEN grade_ret[1] = UNGRADED
        ELSE /\ grade_ret[1] # UNGRADED
             /\ Len(grade_ret[1]) = 2
             /\ grade_ret[1][1] \in {"A", "B", "C"}
             /\ grade_ret[1][2] \in {"1", "2", "3"}

\* C11 witness: a channel with subscribers whose collection holds nothing but
\* rows without views_per_day has been graded
C11_Witness ==
    /\ grade_ret # <<>> /\ grade_info.subscriber_count > 0
    /\ grade_df = <<FNaN, FNaN>>
    /\ Len(grade_ret[1]) = 2

(***************************************************************************)
(* SpecDerive: the metric derivation on the projected rows below.          *)
(***************************************************************************)
MaxDeriveRows == 2
DeriveNow == 100 * SecondsPerDay
DeriveAges == {0, 4320, 8640, SecondsPerDay, 40 * SecondsPerDay}
DeriveViews == {0, 100, 10000}

DeriveRowChoices ==
    {[title |-> "t", views |-> v, published_at |-> p, duration_sec |-> 0] :
        v \in DeriveViews, p \in {DeriveNow - a : a \in DeriveAges} \cup {NaT}}

DeriveInit ==
    /\ derive_rows \in UNION {[1..n -> DeriveRowChoices] : n \in 0..MaxDeriveRows}
    /\ derive_now = DeriveNow
    /\ derive_df = <<>>

DeriveCall ==
    /\ derive_df = <<>>
    /\ \E key \in {"views", "published_at"} :
           derive_df' = <<Derive(derive_rows, derive_now, key)>>
    /\ UNCHANGED <<derive_rows, derive_now>>
    /\ UNCHANGED notDerive

InitDerive ==
    DeriveInit /\ GradeIdle /\ HistoryIdle /\ DurationIdle /\ KeywordIdle /\ CacheIdle
    /\ ProjectIdle /\ PatternIdle

SpecDerive == InitDerive /\ [][DeriveCall]_vars

\* C5: every derived record (here: every one whose publish instant is valid,
\* so that it has an age) has views_per_day = views / max(age_days, 0.1), which
\* is finite and at most 10 x views.
C5_ClampedViewsPerDay ==
    derive_df # <<>> =>
        \A i \in 1..Len(derive_df[1]) :
            LET r       == derive_df[1][i]
                age     == AgeDays(derive_now, r.published_at)
                clamped == IF FLt(age, Dec(1, 10)) THEN Dec(1, 10) ELSE age
            IN  r.published_at # NaT =>
                /\ ~IsNaN(r.views_per_day)
                /\ r.views_per_day = FDiv(FromInt(r.views), clamped)
                /\ FGeq(FromInt(10 * r.views), r.views_per_day)

(***************************************************************************)
(* SpecDuration: parse_iso_duration on the tokens below.                   *)
(***************************************************************************)
MaxPart == 2
PartValues == {0, 15, 120} \cup 1..MaxPart

\* "PT" and the parts that are present (a part is <<>> or <<n>>)
FormatPart(part, unit) == IF part = <<>> THEN <<>> ELSE StrOfNat(part[1]) \o <<unit>>

FormatDuration(h, m, s) ==
    <<"P", "T">> \o FormatPart(h, "H") \o FormatPart(m, "M") \o FormatPart(s, "S")

OptionalValues == {<<>>} \cup {<<n>> : n \in PartValues}

WellFormedTokens ==
    {FormatDuration(h, m, s) : h \in OptionalValues, m \in OptionalValues, s \in OptionalValues}

\* strings that are no PT[n]H[n]M[n]S token
MalformedTokens ==
    {<<"P", "T", "5", "S", "3", "M">>,
     <<"P", "T", "1", "H", "3", "0">>,
     <<"P", "T", "1", "0", "S", " ">>,
     <<"P", "1", "D", "T", "2", "H">>,
     <<"P", "T">>,
     <<"P", "T", "M">>,
     <<"p", "t", "5", "m">>,
     <<"P", "T", "-", "5", "M">>,
     <<"X", "P", "T", "5", "M">>,
     <<"1", "5", "M", "3", "3", "S">>,
     <<"P", "T", "1", ".", "5", "S">>,
     <<"P", "T", "5", "M", "5", "M">>}

DurationArguments ==
    {<<>>, <<<<>>>>} \cup {<<t>> : t \in WellFormedTokens \cup MalformedTokens}

DurationInit == dur_token \in DurationArguments /\ dur_ret = <<>>

ParseCall ==
    /\ dur_ret = <<>>
    /\ dur_ret' = <<parse_iso_duration(dur_token)>>
    /\ UNCHANGED dur_token
    /\ UNCHANGED notDuration

InitDuration ==
    DurationInit /\ GradeIdle /\ DeriveIdle /\ HistoryIdle /\ KeywordIdle /\ CacheIdle
    /\ ProjectIdle /\ PatternIdle

SpecDuration == InitDuration /\ [][ParseCall]_vars

\* a string is a PT[n]H[n]M[n]S token when the pattern matches all of it
IsDurationToken(s) == pattern_match(s).matched /\ pattern_match(s).end = Len(s) + 1

\* C6: parse_iso_duration returns 3600*H + 60*M + S for every token of the form
\* PT[n]H[n]M[n]S with any subset of the parts present, and 0 for a missing or
\* unparseable token.
C6_DurationSeconds ==
    dur_ret # <<>> =>
        IF dur_token # <<>> /\ IsDurationToken(dur_token[1])
        THEN \E h \in OptionalValues, m \in OptionalValues, s \in OptionalValues :
                /\ dur_token[1] = FormatDuration(h, m, s)
                /\ dur_ret[1] = 3600 * (IF h = <<>> THEN 0 ELSE h[1])
                                + 60 * (IF m = <<>> THEN 0 ELSE m[1])
                                + (IF s = <<>> THEN 0 ELSE s[1])
        ELSE dur_ret[1] = 0

(***************************************************************************)
(* SpecKeywords: extract_keywords_with_weight on the frames below.         *)
(***************************************************************************)
MaxTitles == 2
MaxTopN == 3

\* "cooking basics", 100 views
KwRow1 == [title |-> <<"c", "o", "o", "k", "i", "n", "g", " ", "b", "a", "s", "i", "c", "s">>,
           views |-> 100]
\* "cooking secrets", 10000 views
KwRow2 == [title |-> <<"c", "o", "o", "k", "i", "n", "g", " ", "s", "e", "c", "r", "e", "t", "s">>,
           views |-> 10000]
\* "Cooking TIPS: the a x", 100 views
KwRow3 == [title |-> <<"C", "o", "o", "k", "i", "n", "g", " ", "T", "I", "P", "S", ":", " ", "t", "h", "e", " ", "a", " ", "x">>,
           views |-> 100]
\* "go-pro 4k!", 400 views
KwRow4 == [title |-> <<"g", "o", "-", "p", "r", "o", " ", "4", "k", "!">>,
           views |-> 400]
\* "basics", 0 views
KwRow5 == [title |-> <<"b", "a", "s", "i", "c", "s">>,
           views |-> 0]
\* "secrets pasta", 100 views
KwRow6 == [title |-> <<"s", "e", "c", "r", "e", "t", "s", " ", "p", "a", "s", "t", "a">>,
           views |-> 100]

KeywordRows == {KwRow1, KwRow2, KwRow3, KwRow4, KwRow5, KwRow6}

KeywordInit ==
    /\ kw_df \in UNION {[1..n -> KeywordRows] : n \in 0..MaxTitles}
    /\ kw_top_n \in 1..MaxTopN
    /\ kw_ret = <<>>

KeywordCall ==
    /\ kw_ret = <<>>
    /\ kw_ret' = <<extract_keywords_with_weight(kw_df, kw_top_n)>>
    /\ UNCHANGED <<kw_df, kw_top_n>>
    /\ UNCHANGED notKeyword

InitKeywords ==
    KeywordInit /\ GradeIdle /\ DeriveIdle /\ HistoryIdle /\ DurationIdle /\ CacheIdle
    /\ ProjectIdle /\ PatternIdle

SpecKeywords == InitKeywords /\ [][KeywordCall]_vars

\* the surviving tokens of all titles, in the order of the scan
RECURSIVE TokenStream(_)
TokenStream(rows) ==
    IF rows = <<>> THEN <<>>
    ELSE SelectSeq(re_findall(StrLower(Head(rows).title)),
                   LAMBDA t : Len(t) >= 2 /\ t \notin stopwords)
         \o TokenStream(Tail(rows))

\* the square root of the views of every occurrence of token t, summed
RECURSIVE SumOfRoots(_, _)
SumOfRoots(t, rows) ==
    IF rows = <<>> THEN 0
    ELSE Len(SelectSeq(TokenStream(<<Head(rows)>>), LAMBDA u : u = t))
             * (CHOOSE r \in 0..Head(rows).views : r * r = Head(rows).views)
         + SumOfRoots(t, Tail(rows))

FirstSeen(t, rows) == CHOOSE i \in 1..Len(TokenStream(rows)) :
                          /\ TokenStream(rows)[i] = t
                          /\ \A j \in 1..(i - 1) : TokenStream(rows)[j] # t

\* token a is ranked above token b
RanksAbove(a, b, rows) ==
    \/ SumOfRoots(a, rows) > SumOfRoots(b, rows)
    \/ SumOfRoots(a, rows) = SumOfRoots(b, rows) /\ FirstSeen(a, rows) < FirstSeen(b, rows)

Returned == {kw_ret[1][i].keyword : i \in 1..Len(kw_ret[1])}

C8_TopNStable ==
    kw_ret # <<>> =>
        LET ret  == kw_ret[1]
            toks == Range(TokenStream(kw_df))
        IN  /\ Len(ret) = Min2(kw_top_n, Cardinality(toks))
            /\ Returned \subseteq toks
            /\ \A i, j \in 1..Len(ret) :
                   i < j => RanksAbove(ret[i].keyword, ret[j].keyword, kw_df)
            /\ \A t \in toks \ Returned : \A i \in 1..Len(ret) :
                   RanksAbove(ret[i].keyword, t, kw_df)

\* C8 witness: a tie inside the result, and a tie between the last returned
\* token and one that was cut off
C8_Witness ==
    /\ kw_ret # <<>> /\ Len(kw_ret[1]) = kw_top_n /\ kw_top_n >= 2
    /\ kw_ret[1][1].score = kw_ret[1][2].score
    /\ \E t \in Range(TokenStream(kw_df)) \ Returned :
           SumOfRoots(t, kw_df) = kw_ret[1][kw_top_n].score

\* C9: every returned keyword is lowercase, alphanumeric, at least 2
\* characters long and no stopword, its score is not negative, and no token is
\* in more than one row.
C9_KeywordInvariants ==
    kw_ret # <<>> =>
        LET ret == kw_ret[1]
        IN  /\ \A i \in 1..Len(ret) :
                   /\ Range(ret[i].keyword) \subseteq Range(LowerCase) \cup Range(Digits)
                   /\ Len(ret[i].keyword) >= 2
                   /\ ret[i].keyword \notin stopwords
                   /\ ret[i].score >= 0
            /\ \A i, j \in 1..Len(ret) : ret[i].keyword = ret[j].keyword => i = j

\* C9 witness: a title with capitals, a stopword and one-letter words has
\* been ranked, and so has one seen by no viewer
C9_Witness ==
    /\ kw_ret # <<>> /\ kw_df = <<KwRow3, KwRow5>>
    /\ Returned = {<<"c", "o", "o", "k", "i", "n", "g">>, <<"t", "i", "p", "s">>, <<"b", "a", "s", "i", "c", "s">>}

(***************************************************************************)
(* The cached fetches: @st.cache_data(ttl=3600) on fetch_videos_by_keyword, *)
(* fetch_channel_basic and fetch_channel_recent_videos, app.py:239, 285,    *)
(* 307.  The cache keeps, per tuple of arguments, the value the function    *)
(* returned and the time it was stored; an entry is served while it is      *)
(* younger than ttl, a call that raises stores nothing.                     *)
(***************************************************************************)
TTL == 3600

\* the entry is still served at time now
FreshInclusive(entry, now) == now - entry.stamp <= TTL

Fresh(entry, now) == now - entry.stamp < TTL

\* one call of a cached function with arguments sig at time now, the data
\* source answering value or failing: what the cache holds afterwards and what
\* the caller gets
cached_fetch(entries, sig, now, value, fails) ==
    IF entries[sig] # <<>> /\ Fresh(entries[sig][1], now)
    THEN [cache |-> entries, invoked |-> FALSE, raised |-> FALSE,
          ret |-> <<entries[sig][1].value>>]
    ELSE IF fails
    THEN [cache |-> [entries EXCEPT ![sig] = <<>>], invoked |-> TRUE, raised |-> TRUE,
          ret |-> <<>>]
    ELSE [cache |-> [entries EXCEPT ![sig] = <<[value |-> value, stamp |-> now]>>],
          invoked |-> TRUE, raised |-> FALSE, ret |-> <<value>>]

(***************************************************************************)
(* SpecCache: calls of one cached function at the instants below, with two *)
(* query signatures, against a data source whose answers change.           *)
(***************************************************************************)
Signatures == {<<"UCa", 10>>, <<"UCa", 20>>}
Answers == {"v1", "v2"}
Instants == {0, TTL \div 2, TTL - 1, TTL, TTL + TTL \div 2, 2 * TTL}

CacheInit ==
    /\ clock = 0
    /\ cache = [sig \in Signatures |-> <<>>]
    /\ source = [sig \in Signatures |-> "v1"]
    /\ call = <<>>
    /\ returned = [sig \in Signatures |-> <<>>]
    /\ fetched = [sig \in Signatures |-> <<>>]

FetchCall ==
    /\ \E sig \in Signatures, fails \in BOOLEAN :
          LET res == cached_fetch(cache, sig, clock, source[sig], fails)
          IN  /\ cache' = res.cache
              /\ call' = <<[sig |-> sig, time |-> clock, invoked |-> res.invoked,
                            raised |-> res.raised, ret |-> res.ret,
                            earlier |-> returned[sig], producer |-> fetched[sig]]>>
              /\ returned' = IF res.raised THEN returned
                             ELSE [returned EXCEPT ![sig] = <<[time |-> clock, value |-> res.ret[1]]>>]
              /\ fetched' = IF res.invoked /\ ~res.raised
                            THEN [fetched EXCEPT ![sig] = <<[time |-> clock, value |-> res.ret[1]]>>]
                            ELSE fetched
    /\ UNCHANGED <<clock, source>>
    /\ UNCHANGED notCache

TimePasses ==
    /\ \E t \in Instants : t > clock /\ clock' = t
    /\ UNCHANGED <<cache, source, call, returned, fetched>>
    /\ UNCHANGED notCache

SourceChanges ==
    /\ \E sig \in Signatures, v \in Answers :
          v # source[sig] /\ source' = [source EXCEPT ![sig] = v]
    /\ UNCHANGED <<clock, cache, call, returned, fetched>>
    /\ UNCHANGED notCache

InitCache ==
    CacheInit /\ GradeIdle /\ DeriveIdle /\ HistoryIdle /\ DurationIdle /\ KeywordIdle
    /\ ProjectIdle /\ PatternIdle

NextCache == FetchCall \/ TimePasses \/ SourceChanges

SpecCache == InitCache /\ [][NextCache]_vars

\* C4 as stated: a call whose signature equals that of an earlier call made
\* less than one hour before returns that earlier call's result without
\* invoking the data source.
C4_ReuseWithinHourOfEarlierCall ==
    (call # <<>> /\ call[1].earlier # <<>> /\ call[1].time - call[1].earlier[1].time < TTL) =>
        /\ ~call[1].invoked
        /\ call[1].ret = <<call[1].earlier[1].value>>

\* C4, amended: a call whose signature equals that of an earlier call that got
\* its result from the data source less than one hour (3600 s) before returns
\* that result without invoking the data source; any other call invokes the
\* data source, and when that succeeds its result is returned and replaces the
\* cached entry as a whole, the hour counting from this call.
C4_ReuseWithinHourOfFetch ==
    call # <<>> =>
        LET c == call[1]
        IN  IF c.producer # <<>> /\ c.time - c.producer[1].time < TTL
            THEN /\ ~c.invoked /\ ~c.raised
                 /\ c.ret = <<c.producer[1].value>>
            ELSE /\ c.invoked
                 /\ ~c.raised =>
                        /\ c.ret # <<>>
                        /\ clock = c.time =>
                               cache[c.sig] = <<[value |-> c.ret[1], stamp |-> c.time]>>

\* C4 witness: a call exactly one hour after the fetch that filled the cache,
\* less than an hour after a call that was served from the cache, has invoked
\* the data source and got a different result
C4_Witness ==
    /\ call # <<>> /\ call[1].invoked /\ ~call[1].raised
    /\ call[1].producer # <<>> /\ call[1].time - call[1].producer[1].time = TTL
    /\ call[1].earlier # <<>> /\ call[1].time - call[1].earlier[1].time < TTL
    /\ call[1].ret # <<call[1].producer[1].value>>

(***************************************************************************)
(* Projection of a raw API item (app.py:255-270, 293-304, 325-340).        *)
(*                                                                         *)
(* A Python value is a record [t, s, n]: t is the type, s the characters   *)
(* of a str, n the number of an int or the epoch seconds of a Timestamp.   *)
(* A JSON object is a record whose fields are <<>> (key absent) or <<v>>.  *)
(***************************************************************************)
PyNone == [t |-> "None", s |-> <<>>, n |-> 0]
PyStr(chars) == [t |-> "str", s |-> chars, n |-> 0]
PyInt(k) == [t |-> "int", s |-> <<>>, n |-> k]
Timestamp(sec) == [t |-> "Timestamp", s |-> <<>>, n |-> sec]
PyNaT == [t |-> "NaT", s |-> <<>>, n |-> NaT]

\* d.get(key) and d.get(key, default)
Get(d, key) == IF d[key] = <<>> THEN PyNone ELSE d[key][1]
GetOr(d, key, default) == IF d[key] = <<>> THEN default ELSE d[key][1]

\* str.strip() of blanks, as int() applies it to its argument
LStrip(chars) ==
    LET RECURSIVE from(_)
        from(p) == IF p <= Len(chars) /\ chars[p] = " " THEN from(p + 1) ELSE p
    IN  SubSeq(chars, from(1), Len(chars))
RStrip(chars) ==
    LET RECURSIVE upto(_)
        upto(p) == IF p >= 1 /\ chars[p] = " " THEN upto(p - 1) ELSE p
    IN  SubSeq(chars, 1, upto(Len(chars)))

\* int(x): [raised, n].  None raises TypeError; a str must be an optional
\* sign and decimal digits between optional blanks, or ValueError is raised.
int(x) ==
    IF x.t = "int" THEN [raised |-> FALSE, n |-> x.n]
    ELSE IF x.t # "str" THEN [raised |-> TRUE, n |-> 0]
    ELSE LET body   == LStrip(RStrip(x.s))
             signed == body # <<>> /\ body[1] \in {"+", "-"}
             digits == IF signed THEN Tail(body) ELSE body
         IN  IF digits = <<>> \/ \E i \in 1..Len(digits) : ~IsDigit(digits[i])
             THEN [raised |-> TRUE, n |-> 0]
             ELSE [raised |-> FALSE,
                   n |-> IF signed /\ body[1] = "-" THEN -IntOfDigits(digits)
                         ELSE IntOfDigits(digits)]


safe_int(x) == IF int(x).raised THEN 0 ELSE int(x).n

\* days from 1970-01-01 to the civil date y-m-d (proleptic Gregorian)
DaysFromCivil(y, m, d) ==
    LET yy  == IF m <= 2 THEN y - 1 ELSE y
        era == yy \div 400
        yoe == yy - era * 400
        mp  == IF m > 2 THEN m - 3 ELSE m + 9
        doy == (153 * mp + 2) \div 5 + d - 1
        doe == yoe * 365 + yoe \div 4 - yoe \div 100 + doy
    IN  era * 146097 + doe - 719468

DaysInMonth(y, m) ==
    IF m = 2 THEN (IF y % 4 = 0 /\ (y % 100 # 0 \/ y % 400 = 0) THEN 29 ELSE 28)
    ELSE IF m \in {4, 6, 9, 11} THEN 30 ELSE 31

IsoShape == <<"d", "d", "d", "d", "-", "d", "d", "-", "d", "d", "T",
              "d", "d", ":", "d", "d", ":", "d", "d", "Z">>

\* pd.to_datetime(arg): [raised, value].  None is returned as None; a string
\* "YYYY-MM-DDTHH:MM:SSZ" that names a real instant becomes that Timestamp;
\* the other strings of the inputs below are ones the parser rejects.
to_datetime(arg) ==
    IF arg.t = "None" THEN [raised |-> FALSE, value |-> PyNone]
    ELSE IF arg.t # "str" \/ Len(arg.s) # Len(IsoShape)
              \/ \E i \in 1..Len(IsoShape) :
                    IF IsoShape[i] = "d" THEN ~IsDigit(arg.s[i])
                    ELSE arg.s[i] # IsoShape[i]
    THEN [raised |-> TRUE, value |-> PyNone]
    ELSE LET num(a, b) == IntOfDigits(SubSeq(arg.s, a, b))
             y  == num(1, 4)
             m  == num(6, 7)
             d  == num(9, 10)
             hh == num(12, 13)
             mm == num(15, 16)
             ss == num(18, 19)
         IN  IF m \in 1..12 /\ y >= 1 /\ d \in 1..DaysInMonth(y, m)
                /\ hh < 24 /\ mm < 60 /\ ss < 60
             THEN [raised |-> FALSE,
                   value |-> Timestamp(DaysFromCivil(y, m, d) * SecondsPerDay
                                       + hh * 3600 + mm * 60 + ss)]
             ELSE [raised |-> TRUE, value |-> PyNone]

\* value.replace(tzinfo=timezone.utc): None has no attribute replace
replace_tzinfo(value) ==
    IF value.t = "None" THEN [raised |-> TRUE, value |-> PyNone]
    ELSE [raised |-> FALSE, value |-> value]

\* pd.to_datetime(published_at).replace(tzinfo=timezone.utc)
published_ts(published_at) ==
    IF to_datetime(published_at).raised THEN [raised |-> TRUE, value |-> PyNone]
    ELSE replace_tzinfo(to_datetime(published_at).value)

NoSnippet == [title |-> <<>>, description |-> <<>>, publishedAt |-> <<>>, thumbnails |-> <<>>]
NoStatistics ==
    [viewCount |-> <<>>, likeCount |-> <<>>, commentCount |-> <<>>,
     subscriberCount |-> <<>>, videoCount |-> <<>>]
NoContent == [duration |-> <<>>]
NoMedium == [url |-> <<>>]
NoThumbnails == [medium |-> <<>>]

\* snippet.get("thumbnails", {}).get("medium", {}).get("url", "")
thumbnail_url(snippet) ==
    GetOr(GetOr(GetOr(snippet, "thumbnails", NoThumbnails), "medium", NoMedium),
          "url", PyStr(<<>>))

\* content.get("duration", "") handed to parse_iso_duration
duration_sec(content) ==
    LET duration == GetOr(content, "duration", PyStr(<<>>))
    IN  parse_iso_duration(IF duration.t = "None" THEN <<>> ELSE <<duration.s>>)

NoRecord == [kind |-> "none"]

\* one row of fetch_channel_recent_videos (the row of fetch_videos_by_keyword
\* has the same expressions and two more plain snippet.get fields)
video_row(item) ==
    LET snippet == GetOr(item, "snippet", NoSnippet)
        stats   == GetOr(item, "statistics", NoStatistics)
        content == GetOr(item, "contentDetails", NoContent)
        ts      == IF published_ts(Get(snippet, "publishedAt")).raised THEN PyNaT
                   ELSE published_ts(Get(snippet, "publishedAt")).value
    IN  [raised |-> FALSE,
         row |-> [kind |-> "video",
                  id |-> Get(item, "id"),
                  title |-> Get(snippet, "title"),
                  description |-> GetOr(snippet, "description", PyStr(<<>>)),
                  published_at |-> ts,
                  views |-> PyInt(safe_int(Get(stats, "viewCount"))),
                  likes |-> PyInt(safe_int(Get(stats, "likeCount"))),
                  comments |-> PyInt(safe_int(Get(stats, "commentCount"))),
                  duration_sec |-> PyInt(duration_sec(content)),
                  thumbnail_url |-> thumbnail_url(snippet)]]

\* the dict fetch_channel_basic returns for items[0]
channel_row(item) ==
    LET stats   == GetOr(item, "statistics", NoStatistics)
        snippet == GetOr(item, "snippet", NoSnippet)
        ts      == published_ts(Get(snippet, "publishedAt"))
    IN  IF ts.raised THEN [raised |-> TRUE, row |-> NoRecord]
        ELSE [raised |-> FALSE,
              row |-> [kind |-> "channel",
                       id |-> Get(item, "id"),
                       title |-> Get(snippet, "title"),
                       description |-> GetOr(snippet, "description", PyStr(<<>>)),
                       published_at |-> ts.value,
                       subscriber_count |-> PyInt(safe_int(Get(stats, "subscriberCount"))),
                       video_count |-> PyInt(safe_int(Get(stats, "videoCount"))),
                       view_count |-> PyInt(safe_int(Get(stats, "viewCount"))),
                       thumbnail_url |-> thumbnail_url(snippet)]]

project(kind, item) ==
    IF kind = "video" THEN video_row(item) ELSE channel_row(item)

(***************************************************************************)
(* SpecProject: one raw item, any subset of its optional fields absent or  *)
(* malformed, is projected once.                                           *)
(***************************************************************************)
Opt(values) == {<<>>} \cup {<<v>> : v \in values}

TitleChoices == Opt({PyStr(<<"c", "a", "t">>)})
DescriptionChoices == Opt({PyStr(<<"d">>)})
PublishedChoices ==
    Opt({PyStr(<<"2", "0", "2", "4", "-", "0", "3", "-", "1", "0", "T",
                 "0", "9", ":", "3", "0", ":", "0", "0", "Z">>),
         PyStr(<<"2", "0", "2", "4", "-", "1", "3", "-", "0", "1", "T",
                 "0", "0", ":", "0", "0", ":", "0", "0", "Z">>),
         PyStr(<<"s", "o", "o", "n">>)})
ThumbnailChoices ==
    Opt({NoThumbnails,
         [medium |-> <<[url |-> <<PyStr(<<"u">>)>>]>>]})
CountChoices ==
    Opt({PyStr(<<"1", "0", "0", "0">>), PyStr(<<"a", "b", "c">>), PyStr(<<"1", "2", ".", "5">>)})
SmallCountChoices == Opt({PyStr(<<"7">>)})
DurationChoices == Opt({PyStr(<<"P", "T", "2", "M">>), PyStr(<<"2", "m">>)})

SnippetChoices ==
    Opt([title : TitleChoices, description : DescriptionChoices,
         publishedAt : PublishedChoices, thumbnails : ThumbnailChoices])
VideoStatistics ==
    Opt([viewCount : CountChoices, likeCount : SmallCountChoices,
         commentCount : SmallCountChoices, subscriberCount : {<<>>}, videoCount : {<<>>}])
ChannelStatistics ==
    Opt([viewCount : SmallCountChoices, likeCount : {<<>>}, commentCount : {<<>>},
         subscriberCount : CountChoices, videoCount : SmallCountChoices])
ContentChoices == Opt([duration : DurationChoices])

RawItems(kind) ==
    [id : {<<PyStr(<<"x">>)>>}, snippet : SnippetChoices,
     statistics : IF kind = "video" THEN VideoStatistics ELSE ChannelStatistics,
     contentDetails : IF kind = "video" THEN ContentChoices ELSE {<<>>}]

ProjectInit ==
    /\ proj_kind \in {"video", "channel"}
    /\ proj_item \in {<<item>> : item \in RawItems(proj_kind)}
    /\ proj_ret = <<>>

ProjectCall ==
    /\ proj_item # <<>>
    /\ proj_ret = <<>>
    /\ proj_ret' = <<project(proj_kind, proj_item[1])>>
    /\ UNCHANGED <<proj_kind, proj_item>>
    /\ UNCHANGED notProject

InitProject ==
    ProjectInit /\ GradeIdle /\ DeriveIdle /\ HistoryIdle /\ DurationIdle /\ KeywordIdle
    /\ CacheIdle /\ PatternIdle

SpecProject == InitProject /\ [][ProjectCall]_vars

CountFields(kind) ==
    IF kind = "video"
    THEN {<<"views", "viewCount">>, <<"likes", "likeCount">>, <<"comments", "commentCount">>}
    ELSE {<<"subscriber_count", "subscriberCount">>, <<"video_count", "videoCount">>,
          <<"view_count", "viewCount">>}

\* the raw count is missing or is not the text of a number
IsNumeric(chars) ==
    /\ chars # <<>>
    /\ \A i \in 1..Len(chars) : IsDigit(chars[i]) \/ chars[i] = "."
    /\ Cardinality({i \in 1..Len(chars) : chars[i] = "."}) <= 1
    /\ \E i \in 1..Len(chars) : IsDigit(chars[i])

RawCount(item, key) ==
    IF item.statistics = <<>> THEN <<>> ELSE item.statistics[1][key]
RawSnippet(item, key) ==
    IF item.snippet = <<>> THEN <<>> ELSE item.snippet[1][key]

\* C12: projecting a raw video or channel item with any subset of its
\* optional fields absent or malformed never raises; every count field of
\* the record is an integer that is 0 when the raw value is missing or not
\* numeric, and every string field is a string that is empty when the raw
\* value is missing.
C12_ProjectionIsTotal ==
    proj_ret # <<>> =>
        LET item == proj_item[1]
            r    == proj_ret[1]
        IN  /\ ~r.raised
            /\ \A f \in CountFields(proj_kind) :
                  /\ r.row[f[1]].t = "int"
                  /\ (RawCount(item, f[2]) = <<>> \/ ~IsNumeric(RawCount(item, f[2])[1].s))
                        => r.row[f[1]].n = 0
            /\ \A f \in {"title", "description", "thumbnail_url"} :
                  r.row[f].t = "str"
            /\ RawSnippet(item, "title") = <<>> => r.row.title = PyStr(<<>>)
            /\ RawSnippet(item, "description") = <<>> => r.row.description = PyStr(<<>>)
            /\ RawSnippet(item, "thumbnails") = <<>> => r.row.thumbnail_url = PyStr(<<>>)

(***************************************************************************)
(* Publish pattern views: the weekday and publish_hour columns             *)
(* (app.py:279-280, 349-350), the weekday sentence of                      *)
(* make_simple_summary_for_channel (app.py:407-410) and the two bar charts *)
(* of render_pattern_charts (app.py:514-523).  The seven Korean weekday    *)
(* letters are written Mon .. Sun.                                         *)
(***************************************************************************)
mapping == <<"Mon", "Tue", "Wed", "Thu", "Fri", "Sat", "Sun">>
weekday_order == mapping

\* Timestamp.weekday(): 0 is Monday; 1970-01-01 was a Thursday.
\* NaT.weekday() is nan, written <<>>.
weekday(ts) == IF ts = NaT THEN <<>> ELSE <<((ts \div SecondsPerDay) + 3) % 7>>

\* mapping.get(ts.weekday(), "")
weekday_kr_from_ts(ts) == IF weekday(ts) = <<>> THEN "" ELSE mapping[weekday(ts)[1] + 1]

\* Series.dt.hour: NaN, written <<>>, for NaT
dt_hour(ts) == IF ts = NaT THEN <<>> ELSE <<(ts % SecondsPerDay) \div 3600>>

\* the rows with their weekday and publish_hour columns; a cell is <<value>>,
\* or <<>> for NaN
WithPattern(rows) ==
    [i \in 1..Len(rows) |->
        [views |-> rows[i].views, published_at |-> rows[i].published_at,
         weekday |-> <<weekday_kr_from_ts(rows[i].published_at)>>,
         publish_hour |-> dt_hour(rows[i].published_at)]]

\* df.groupby(column)["views"].mean(): the keys met, and the mean of each.
\* groupby leaves out the rows whose key is NaN; "" is a key like any other.
GroupKeys(df, column) ==
    {df[i][column] : i \in {j \in 1..Len(df) : df[j][column] # <<>>}}
GroupMean(df, column, key) ==
    LET members == SelectSeq(df, LAMBDA row : row[column] = key)
    IN  Mean([i \in 1..Len(members) |-> FromInt(members[i].views)])

\* make_simple_summary_for_channel, its weekday sentence: the number of
\* weekday groups, and the candidates for weekday_mean.index[0] after
\* sort_values(ascending=False) (any key of maximal mean; <<>> when the
\* sentence is not written)
weekday_sentence(df) ==
    LET ks   == GroupKeys(df, "weekday")
        mean == [k \in ks |-> GroupMean(df, "weekday", k)]
    IN  IF df = <<>> THEN [groups |-> 0, best_day |-> {<<>>}]
        ELSE [groups |-> Cardinality(ks),
              best_day |-> IF Cardinality(ks) >= 3
                           THEN {b \in ks : \A j \in ks : FGeq(mean[b], mean[j])}
                           ELSE {<<>>}]

\* render_pattern_charts, columns c1 and c2: the two series given to
\* st.bar_chart, as sets of <<key, int(mean)>> (empty: no chart is drawn)
pattern_charts(df) ==
    IF df = <<>> THEN [weekday_mean |-> {}, hour_mean |-> {}]
    ELSE [weekday_mean |->
             {<<k[1], FTrunc(GroupMean(df, "weekday", k))>> :
                 k \in GroupKeys(df, "weekday") \cap {<<d>> : d \in Range(weekday_order)}},
          hour_mean |->
             {<<k[1], FTrunc(GroupMean(df, "publish_hour", k))>> :
                 k \in GroupKeys(df, "publish_hour")}]

(***************************************************************************)
(* SpecPattern: a channel's rows, some without a publish instant, go       *)
(* through the summary sentence and through the charts.                    *)
(***************************************************************************)
MaxPatternRows == 3
Monday == 4 * SecondsPerDay
PatternInstants ==
    {NaT, Monday + 9 * 3600, Monday + SecondsPerDay + 10 * 3600,
     Monday + 2 * SecondsPerDay + 9 * 3600}
PatternViews == {100, 300}
PatternRowChoices == [views : PatternViews, published_at : PatternInstants]

RECURSIVE RowSeqs(_, _)
RowSeqs(choices, n) ==
    IF n = 0 THEN {<<>>}
    ELSE RowSeqs(choices, n - 1)
         \cup {Append(rows, r) : rows \in {q \in RowSeqs(choices, n - 1) : Len(q) = n - 1},
                                 r \in choices}

\* the rows that have a publish instant
Dated(rows) == SelectSeq(rows, LAMBDA r : r.published_at # NaT)

\* The frames come sorted as fetch_channel_recent_videos leaves them.  A
\* frame in which no row has a publish instant is left out: its published_at
\* column is not timezone-aware, and the age subtraction of app.py:345 is
\* not defined for it in every pandas build.
PatternInit ==
    /\ pat_rows \in {SortValues("published_at", rows) :
                        rows \in {q \in RowSeqs(PatternRowChoices, MaxPatternRows) :
                                     q = <<>> \/ Dated(q) # <<>>}}
    /\ pat_ret = [summary |-> <<>>, charts |-> <<>>]

SummaryCall ==
    /\ pat_ret.summary = <<>>
    /\ \E best \in weekday_sentence(WithPattern(pat_rows)).best_day :
          pat_ret' = [pat_ret EXCEPT !.summary =
                         <<[groups |-> weekday_sentence(WithPattern(pat_rows)).groups,
                            best_day |-> best]>>]
    /\ UNCHANGED pat_rows
    /\ UNCHANGED notPattern

ChartsCall ==
    /\ pat_ret.charts = <<>>
    /\ pat_ret' = [pat_ret EXCEPT !.charts = <<pattern_charts(WithPattern(pat_rows))>>]
    /\ UNCHANGED pat_rows
    /\ UNCHANGED notPattern

InitPattern ==
    PatternInit /\ GradeIdle /\ DeriveIdle /\ HistoryIdle /\ DurationIdle /\ KeywordIdle
    /\ CacheIdle /\ ProjectIdle

NextPattern == SummaryCall \/ ChartsCall

SpecPattern == InitPattern /\ [][NextPattern]_vars

\* C13: a record without a publish instant contributes to no weekday or
\* hour group, is not counted toward the number of weekday groups and is
\* never the best upload day: the summary sentence and both charts are the
\* ones the records that have a publish instant give.
C13_UndatedRowsExcluded ==
    /\ pat_ret.summary # <<>> =>
          /\ pat_ret.summary[1].groups
                = Cardinality({weekday_kr_from_ts(pat_rows[i].published_at) :
                                  i \in {j \in 1..Len(pat_rows) : pat_rows[j].published_at # NaT}})
          /\ pat_ret.summary[1].best_day # <<"">>
          /\ pat_ret.summary[1].best_day
                \in weekday_sentence(WithPattern(Dated(pat_rows))).best_day
    /\ pat_ret.charts # <<>> =>
          pat_ret.charts[1] = pattern_charts(WithPattern(Dated(pat_rows)))

====
